---- MODULE Spec2Model ----
(***************************************************************************)
(* Model of the interactive sales-coach session: the Response Arbiter      *)
(* (SalesCoachAgent.generate_natural_response) and the WebSocket handler   *)
(* that drives it (websocket_interactive_presentation).                    *)
(*                                                                         *)
(* Python strings are TLA+ strings; a character is a string of length 1.   *)
(***************************************************************************)
EXTENDS Integers, Sequences, FiniteSets, TLC

VARIABLES
    conversation_history,   \* main.py:313  list of {"speaker", "text"} turns
    greeting_sent,          \* main.py:314
    sent,                   \* messages handed to websocket.send_json, in order
    running,                \* TRUE while the `while True` loop of main.py:317 runs
    message,                \* main.py:319  the event received last
    call,                   \* the last generate_natural_response call: inputs and outcome
    oracle_calls,           \* number of chat.completions.create calls made by the Arbiter
    events,                 \* number of events received so far
    ws_closed,              \* TRUE once the handler called websocket.close()
    analysis,               \* the last analyze_presentation call: inputs and outcome
    ws,                     \* concurrent sessions: the handler coroutine of each connection
    loop,                   \* the session whose synchronous call holds the event loop, or 0
    http,                   \* active_sessions and the answer to the last HTTP request
    speech                  \* the SpeechService object and the SDK thread's callback

\* The state of one session taken alone.
session_vars == <<conversation_history, greeting_sent, sent, running, message, call,
                  oracle_calls, events, ws_closed, analysis>>

vars == <<conversation_history, greeting_sent, sent, running, message, call,
          oracle_calls, events, ws_closed, analysis, ws, loop, http, speech>>

\* The HTTP session registry and the speech service.
service_vars == <<http, speech>>

-----------------------------------------------------------------------------
(* Bounds of the model.                                                    *)

\* Events one session receives.
MaxEvents == 3
\* Characters of padding (quotes, whitespace) put on each side of an Oracle reply.
MaxPad == 2
\* Question marks at the end of an utterance given to the classifier.
MaxMarks == 2
\* Turns of a history given to the context builder.
MaxHistory == 5
\* Events the clients of the concurrent sessions send in total.
MaxLoopEvents == 4
\* HTTP requests answered.
MaxRequests == 4
\* Results recognized plus start and stop calls on the speech service.
MaxSpeechEvents == 5

-----------------------------------------------------------------------------
(* Python str primitives.                                                  *)

CharAt(s, i) == SubSeq(s, i, i)

\* The characters str.strip() removes by default (space, newline, tab).
Whitespace == {" ", "\n", "\t"}

\* The characters named by strip('"\'').
QuoteChars == {"\"", "'"}

LowerCase == "abcdefghijklmnopqrstuvwxyz"

UpperCase == "ABCDEFGHIJKLMNOPQRSTUVWXYZ"

RECURSIVE lstrip(_, _)
lstrip(s, chars) ==
    IF Len(s) > 0 /\ CharAt(s, 1) \in chars
    THEN lstrip(SubSeq(s, 2, Len(s)), chars)
    ELSE s

RECURSIVE rstrip(_, _)
rstrip(s, chars) ==
    IF Len(s) > 0 /\ CharAt(s, Len(s)) \in chars
    THEN rstrip(SubSeq(s, 1, Len(s) - 1), chars)
    ELSE s

strip(s, chars) == rstrip(lstrip(s, chars), chars)

\* Tables of str.upper() and str.lower() on ASCII letters.
UpperOf ==
    [c \in {CharAt(LowerCase, i) : i \in 1..Len(LowerCase)} |->
        CharAt(UpperCase, CHOOSE i \in 1..Len(LowerCase) : CharAt(LowerCase, i) = c)]

LowerOf ==
    [c \in {CharAt(UpperCase, i) : i \in 1..Len(UpperCase)} |->
        CharAt(LowerCase, CHOOSE i \in 1..Len(UpperCase) : CharAt(UpperCase, i) = c)]

RECURSIVE MapStr(_, _)
MapStr(s, table) ==
    IF Len(s) = 0 THEN ""
    ELSE (IF CharAt(s, 1) \in DOMAIN table THEN table[CharAt(s, 1)] ELSE CharAt(s, 1))
             \o MapStr(SubSeq(s, 2, Len(s)), table)

upper(s) == MapStr(s, UpperOf)

lower(s) == MapStr(s, LowerOf)

startswith(s, prefix) ==
    Len(s) >= Len(prefix) /\ SubSeq(s, 1, Len(prefix)) = prefix

endswith(s, suffix) ==
    Len(s) >= Len(suffix) /\ SubSeq(s, Len(s) - Len(suffix) + 1, Len(s)) = suffix

\* s[:n]
Prefix(s, n) == SubSeq(s, 1, IF Len(s) < n THEN Len(s) ELSE n)

\* str.split(sep) for a one-character sep: the pieces between separators,
\* empty pieces included.
RECURSIVE SplitAcc(_, _, _)
SplitAcc(s, sep, cur) ==
    IF Len(s) = 0 THEN <<cur>>
    ELSE IF CharAt(s, 1) = sep
         THEN <<cur>> \o SplitAcc(SubSeq(s, 2, Len(s)), sep, "")
         ELSE SplitAcc(SubSeq(s, 2, Len(s)), sep, cur \o CharAt(s, 1))

split_on(s, sep) == SplitAcc(s, sep, "")

\* str.split() without argument: the maximal runs of non-whitespace characters.
RECURSIVE WordsAcc(_, _)
WordsAcc(s, cur) ==
    IF Len(s) = 0 THEN (IF cur = "" THEN <<>> ELSE <<cur>>)
    ELSE IF CharAt(s, 1) \in Whitespace
         THEN (IF cur = "" THEN <<>> ELSE <<cur>>) \o WordsAcc(SubSeq(s, 2, Len(s)), "")
         ELSE WordsAcc(SubSeq(s, 2, Len(s)), cur \o CharAt(s, 1))

split(s) == WordsAcc(s, "")

\* "\n".join(lines)
RECURSIVE join(_, _)
join(sep, lines) ==
    IF Len(lines) = 0 THEN ""
    ELSE IF Len(lines) = 1 THEN lines[1]
    ELSE lines[1] \o sep \o join(sep, Tail(lines))

-----------------------------------------------------------------------------
(* SalesCoachAgent.generate_natural_response                               *)

\* One rendered turn: f"{h['speaker'].upper()}: {h['text']}"
RenderTurn(h) == upper(h.speaker) \o ": " \o h.text

LastTurns_first(history, n) ==
    IF Len(history) <= n THEN history
    ELSE SubSeq(history, 1, n)

\* conversation_history[-4:]
LastTurns(history, n) ==
    IF Len(history) <= n THEN history
    ELSE SubSeq(history, Len(history) - n + 1, Len(history))

ContextWindow == 4

Context(history) ==
    LET recent == LastTurns(history, ContextWindow)
    IN  join("\n", [i \in 1..Len(recent) |-> RenderTurn(recent[i])])

QuestionPhrases ==
    {"what do you think", "any questions", "does that make sense",
     "do you have any", "tell me what you"}

SentencePrefixLen == 20

sentence_starts_no_lower(presenter_text) ==
    LET parts == split_on(presenter_text, ".")
        kept  == SelectSeq(parts, LAMBDA s : strip(s, Whitespace) # "")
    IN  [i \in 1..Len(kept) |-> Prefix(strip(kept[i], Whitespace), SentencePrefixLen)]

\* [s.strip().lower()[:20] for s in presenter_text.split('.') if s.strip()]
sentence_starts(presenter_text) ==
    LET parts == split_on(presenter_text, ".")
        kept  == SelectSeq(parts, LAMBDA s : strip(s, Whitespace) # "")
    IN  [i \in 1..Len(kept) |->
            Prefix(lower(strip(kept[i], Whitespace)), SentencePrefixLen)]

\* q in s
contains(s, q) ==
    \E i \in 1..(Len(s) - Len(q) + 1) : SubSeq(s, i, i + Len(q) - 1) = q

is_question_untrimmed(presenter_text) ==
    LET starts == sentence_starts(presenter_text)
    IN  \/ endswith(presenter_text, "?")
        \/ \E i \in 1..Len(starts) : \E q \in QuestionPhrases :
               startswith(starts[i], q)

is_question_contains(presenter_text) ==
    LET trimmed == strip(presenter_text, Whitespace)
        starts  == sentence_starts(presenter_text)
    IN  \/ endswith(trimmed, "?")
        \/ \E i \in 1..Len(starts) : \E q \in QuestionPhrases :
               contains(starts[i], q)

is_question(presenter_text) ==
    LET trimmed == strip(presenter_text, Whitespace)
        starts  == sentence_starts(presenter_text)
    IN  \/ endswith(trimmed, "?")
        \/ endswith(trimmed, "??")
        \/ \E i \in 1..Len(starts) : \E q \in QuestionPhrases :
               startswith(starts[i], q)

\* response.choices[0].message.content.strip() followed by .strip('"\'')
clean_reply(content) == strip(strip(content, Whitespace), QuoteChars)

Fallback == "That's a good question. Could you elaborate a bit more?"

forced_response_no_fallback(avatar_response) == avatar_response

\* The branch taken when is_question holds.
forced_response(avatar_response) ==
    IF avatar_response = "" \/ upper(avatar_response) \in {"SILENT", "SILENCE"}
    THEN Fallback
    ELSE avatar_response

chose_silent(avatar_response) ==
    upper(avatar_response) \in {"SILENT", "SILENCE", "NO RESPONSE"}

MinReplyLen == 2

too_generic_off_by_one(avatar_response) ==
    avatar_response = "" \/ Len(strip(avatar_response, Whitespace)) < MinReplyLen - 1

too_generic(avatar_response) ==
    avatar_response = "" \/ Len(strip(avatar_response, Whitespace)) < MinReplyLen

\* The outcome of the Oracle call chat.completions.create: the text of the
\* first choice, a choice without content (None), or an exception.
OracleKinds == {"text", "none", "raise"}

\* The body of the try block; raised = TRUE when an exception leaves it.
try_body(presenter_text, history, oracle) ==
    IF oracle.kind # "text"
    THEN [ret |-> "", raised |-> TRUE]
    ELSE LET avatar_response == clean_reply(oracle.content)
         IN  IF is_question(presenter_text)
             THEN [ret |-> forced_response(avatar_response), raised |-> FALSE]
             ELSE IF chose_silent(avatar_response)
             THEN [ret |-> "", raised |-> FALSE]
             ELSE IF too_generic(avatar_response)
             THEN [ret |-> "", raised |-> FALSE]
             ELSE [ret |-> avatar_response, raised |-> FALSE]

except_reraise(r) == r

\* except Exception: log and return "".
except_Exception(r) == [ret |-> "", raised |-> FALSE]

generate_natural_response(presenter_text, history, oracle) ==
    LET r == try_body(presenter_text, history, oracle)
    IN  IF r.raised THEN except_Exception(r) ELSE r

-----------------------------------------------------------------------------
(* Inputs.                                                                 *)

PadChars == {" ", "\""}

\* All strings of at most n padding characters.
RECURSIVE Pads(_)
Pads(n) ==
    IF n = 0 THEN {""}
    ELSE Pads(n - 1) \cup {p \o c : p \in Pads(n - 1), c \in PadChars}

ReplyCores ==
    {"", "a", "ok", "yes", "SILENT", "Silence", "no response",
     "Sure, tell me more."}

\* What the Oracle may answer: a core, bare or in single quotes, wrapped in
\* double quotes and whitespace.
OracleTexts(n) ==
    {l \o q \o core \o q \o r :
        l \in Pads(n), r \in Pads(n), q \in {"", "'"}, core \in ReplyCores}

Oracles(n) ==
    [kind : {"text"}, content : OracleTexts(n)]
        \cup {[kind |-> "none", content |-> ""], [kind |-> "raise", content |-> ""]}

PresenterTexts ==
    {"", "  ", "Yes.", "Is it ok?",
     "So our platform reduces onboarding time significantly.",
     "What pricing tiers do you offer?",
     "Does that make sense so far.",
     "We ship it fast. Any questions so far",
     "Is that really what you need?? "}

Turn_customer(speaker, text) == [speaker |-> "customer", text |-> text]

Turn(speaker, text) == [speaker |-> speaker, text |-> text]

Histories ==
    {<<>>,
     <<Turn("presenter", "We sell a platform for teams."), Turn("customer", "ok.")>>}

NoCall ==
    [presenter_text |-> "", history |-> <<>>, oracle |-> [kind |-> "none", content |-> ""],
     context |-> "", is_question |-> FALSE,
     ret |-> "", raised |-> FALSE, done |-> FALSE]

NoMessage == [type |-> "", text |-> ""]

\* Connections served at the same time by the one event loop.
Sessions == {1, 2}

\* A handler coroutine right after websocket.accept(): its locals
\* (history, greeting_sent), the messages it sent, the client messages not
\* yet read (inbox), where it stands (pc), and the generate_natural_response
\* calls it has awaiting the Oracle.
NewSession ==
    [inbox |-> <<>>, pc |-> "receive", history |-> <<>>, greeting_sent |-> FALSE,
     sent |-> <<>>, closed |-> FALSE, pending |-> NoMessage, in_flight |-> 0,
     handled |-> 0, log |-> <<>>]

NoReport == [fields |-> {}, overall_score |-> 0]

NoBody == [transcript |-> "", report |-> NoReport]

NoResponse == [route |-> "", id |-> 0, status |-> 0, body |-> NoBody]

\* active_sessions = {} at import; no request answered yet. `created` counts
\* the ids uuid4 has handed out, `requests` the requests answered, and
\* `succeeded` records the ids whose analyze request answered 200.
NewRegistry ==
    [sessions |-> <<>>, created |-> 0, requests |-> 0, response |-> NoResponse,
     succeeded |-> {}]

NoResult == [text |-> "", timestamp |-> 0]

\* SpeechService.__init__: no segments, empty transcript, no recognizer.
\* `evt` is the result whose _on_recognized callback the SDK thread is in,
\* `results` counts the results recognized, `calls` the start and stop
\* calls, `since_start` holds the non-blank results recognized after the
\* last start_continuous_recognition, `started_at` is the value of `results`
\* at that start, and `returned` is what the last
\* stop_continuous_recognition returned.
NewSpeechService ==
    [segments |-> <<>>, full_transcript |-> "", recognizer |-> FALSE,
     evt |-> NoResult, results |-> 0, calls |-> 0, since_start |-> <<>>,
     started_at |-> 0,
     returned |-> [transcript |-> "", segments |-> <<>>, done |-> FALSE]]

NoAnalysis ==
    [transcript |-> "", reply |-> [kind |-> "none"], report |-> NoReport,
     raised |-> FALSE, oracle_calls |-> 0, done |-> FALSE]

-----------------------------------------------------------------------------
(* The Arbiter alone: one call of generate_natural_response on inputs      *)
(* drawn from PresenterTexts, Histories and Oracles(MaxPad).               *)

ArbInit ==
    /\ conversation_history = <<>>
    /\ greeting_sent = FALSE
    /\ sent = <<>>
    /\ running = FALSE
    /\ message = NoMessage
    /\ oracle_calls = 0
    /\ events = 0
    /\ ws_closed = FALSE
    /\ analysis = NoAnalysis
    /\ ws = [s \in Sessions |-> NewSession]
    /\ loop = 0
    /\ http = NewRegistry
    /\ speech = NewSpeechService
    /\ \E t \in PresenterTexts, h \in Histories, o \in Oracles(MaxPad) :
           call = [NoCall EXCEPT !.presenter_text = t, !.history = h, !.oracle = o]

Decide ==
    /\ ~call.done
    /\ LET r == generate_natural_response(call.presenter_text, call.history, call.oracle)
       IN  call' = [call EXCEPT !.context = Context(call.history),
                                !.is_question = is_question(call.presenter_text),
                                !.ret = r.ret, !.raised = r.raised, !.done = TRUE]
    /\ oracle_calls' = oracle_calls + 1
    /\ UNCHANGED <<conversation_history, greeting_sent, sent, running, message, events,
                   ws_closed, analysis, ws, loop, http, speech>>

ArbNext == Decide

ArbSpec == ArbInit /\ [][ArbNext]_vars

-----------------------------------------------------------------------------
(* The Turn Classifier: generate_natural_response on a wide set of         *)
(* utterances and a few Oracle outcomes.                                   *)

RECURSIVE Marks(_)
Marks(n) == IF n = 0 THEN "" ELSE "?" \o Marks(n - 1)

FirstSentences ==
    {"", "We ship it fast", "Any questions so far", "DOES THAT MAKE SENSE",
     "So what do you think", "Tell me what your team needs", "Do you have any",
     "does that make sens"}

LaterSentences ==
    {"", ". What do you think of it", ".any questions", ". And then any questions"}

\* lead + first sentence + later sentence + question marks + trailer
Utterances(n) ==
    {lead \o first \o later \o Marks(k) \o trail :
        lead \in {"", " "}, first \in FirstSentences, later \in LaterSentences,
        k \in 0..n, trail \in {"", " ", "."}}

ClassifierOracles ==
    {[kind |-> "text", content |-> "SILENT"],
     [kind |-> "text", content |-> "Sure, tell me more."],
     [kind |-> "raise", content |-> ""]}

ClsInit ==
    /\ conversation_history = <<>>
    /\ greeting_sent = FALSE
    /\ sent = <<>>
    /\ running = FALSE
    /\ message = NoMessage
    /\ oracle_calls = 0
    /\ events = 0
    /\ ws_closed = FALSE
    /\ analysis = NoAnalysis
    /\ ws = [s \in Sessions |-> NewSession]
    /\ loop = 0
    /\ http = NewRegistry
    /\ speech = NewSpeechService
    /\ \E t \in Utterances(MaxMarks), o \in ClassifierOracles :
           call = [NoCall EXCEPT !.presenter_text = t, !.oracle = o]

ClsSpec == ClsInit /\ [][ArbNext]_vars

-----------------------------------------------------------------------------
(* The context window: generate_natural_response on histories of every     *)
(* length up to MaxHistory.                                                *)

TurnPool ==
    {Turn("presenter", "We sell a platform."),
     Turn("presenter", "It is fast: really!"),
     Turn("customer", "ok.")}

\* All histories of at most n turns.
RECURSIVE HistoriesUpTo(_)
HistoriesUpTo(n) ==
    IF n = 0 THEN {<<>>}
    ELSE HistoriesUpTo(n - 1)
             \cup {Append(h, t) : h \in {g \in HistoriesUpTo(n - 1) : Len(g) = n - 1},
                                  t \in TurnPool}

CtxInit ==
    /\ conversation_history = <<>>
    /\ greeting_sent = FALSE
    /\ sent = <<>>
    /\ running = FALSE
    /\ message = NoMessage
    /\ oracle_calls = 0
    /\ events = 0
    /\ ws_closed = FALSE
    /\ analysis = NoAnalysis
    /\ ws = [s \in Sessions |-> NewSession]
    /\ loop = 0
    /\ http = NewRegistry
    /\ speech = NewSpeechService
    /\ \E t \in {"Does that make sense so far.", "We ship it fast."},
          h \in HistoriesUpTo(MaxHistory), o \in ClassifierOracles :
           call = [NoCall EXCEPT !.presenter_text = t, !.history = h, !.oracle = o]

CtxSpec == CtxInit /\ [][ArbNext]_vars

-----------------------------------------------------------------------------
(* websocket_interactive_presentation: one interactive session.            *)

Greeting == "Hi! I'm interested in learning about your product. Go ahead."

MinWords == 5

should_consider_speaking_four_words(recent_text) ==
    ~(recent_text = "" \/ Len(split(recent_text)) < MinWords - 1)

\* The word gate: `if not recent_text or len(recent_text.split()) < 5: continue`
should_consider_speaking(recent_text) ==
    ~(recent_text = "" \/ Len(split(recent_text)) < MinWords)

greeting_gate_open == TRUE

\* `if not greeting_sent: continue`
greeting_gate == greeting_sent

MinSpeakLen == 2

something_to_say_anything(response) == response # ""

\* `if response and response.strip() and len(response) > 2`
something_to_say(response) ==
    /\ response # ""
    /\ strip(response, Whitespace) # ""
    /\ Len(response) > MinSpeakLen

AvatarSpeak(text) == [type |-> "avatar_speak", text |-> text]

CoachingReport_blank(report) == [type |-> "coaching_report", report |-> NoReport]

\* {"type": "coaching_report", "report": report.model_dump()}
CoachingReport(report) == [type |-> "coaching_report", report |-> report]

\* recent_text values of pause_detected events.
PauseTexts ==
    {"", "Yes.", "Is it really ok?",
     "So our platform reduces onboarding time significantly.",
     " What pricing tiers do you offer? ",
     "Does that make sense so far."}

\* Oracle outcomes within a session.
SessionOracles ==
    {[kind |-> "raise", content |-> ""],
     [kind |-> "none", content |-> ""],
     [kind |-> "text", content |-> ""],
     [kind |-> "text", content |-> "SILENT"],
     [kind |-> "text", content |-> "\" silent \""],
     [kind |-> "text", content |-> "ok"],
     [kind |-> "text", content |-> "\"No response\""],
     [kind |-> "text", content |-> "Sure, tell me more."],
     [kind |-> "text", content |-> "Sure.\nTell me more."]}

Init ==
    /\ conversation_history = <<>>
    /\ greeting_sent = FALSE
    /\ sent = <<>>
    /\ running = TRUE
    /\ message = NoMessage
    /\ call = NoCall
    /\ oracle_calls = 0
    /\ events = 0
    /\ ws_closed = FALSE
    /\ analysis = NoAnalysis
    /\ ws = [s \in Sessions |-> NewSession]
    /\ loop = 0
    /\ http = NewRegistry
    /\ speech = NewSpeechService

extend_front(history, turns) == turns \o history

\* conversation_history.append(...) for each of the turns, in order.
extend(history, turns) == history \o turns

Receive_after_break(type, text) ==
    /\ events < MaxEvents
    /\ message' = [type |-> type, text |-> text]
    /\ events' = events + 1
    /\ UNCHANGED <<ws, loop, http, speech>>

\* message = await websocket.receive_json()
Receive(type, text) ==
    /\ running
    /\ events < MaxEvents
    /\ message' = [type |-> type, text |-> text]
    /\ events' = events + 1
    /\ UNCHANGED <<ws, loop, http, speech>>

StartSession ==
    /\ Receive("start_session", "")
    /\ sent' = Append(sent, AvatarSpeak(Greeting))
    /\ greeting_sent' = TRUE
    /\ call' = NoCall
    /\ UNCHANGED <<conversation_history, running, oracle_calls, ws_closed, analysis>>

TranscriptUpdate ==
    /\ Receive("transcript_update", "So our platform")
    /\ call' = NoCall
    /\ UNCHANGED <<conversation_history, greeting_sent, sent, running, oracle_calls,
                   ws_closed, analysis>>

\* pause_detected that stops at one of the two `continue` statements.
PauseIgnored ==
    \E text \in PauseTexts :
        LET recent_text == strip(text, Whitespace)
        IN  /\ Receive("pause_detected", text)
            /\ ~should_consider_speaking(recent_text) \/ ~greeting_gate
            /\ call' = NoCall
            /\ UNCHANGED <<conversation_history, greeting_sent, sent, running,
                           oracle_calls, ws_closed, analysis>>

\* pause_detected that reaches generate_natural_response.
PauseConsidered ==
    \E text \in PauseTexts, oracle \in SessionOracles :
        LET recent_text == strip(text, Whitespace)
            r == generate_natural_response(recent_text, conversation_history, oracle)
        IN  /\ Receive("pause_detected", text)
            /\ should_consider_speaking(recent_text)
            /\ greeting_gate
            /\ oracle_calls' = oracle_calls + 1
            /\ call' = [presenter_text |-> recent_text, history |-> conversation_history,
                        oracle |-> oracle,
                        context |-> Context(conversation_history),
                        is_question |-> is_question(recent_text),
                        ret |-> r.ret, raised |-> r.raised, done |-> TRUE]
            /\ IF r.raised
               THEN \* except Exception as e: log only
                    UNCHANGED <<conversation_history, sent>>
               ELSE IF something_to_say(r.ret)
               THEN /\ sent' = Append(sent, AvatarSpeak(r.ret))
                    /\ conversation_history' =
                           extend(conversation_history,
                                  <<Turn("presenter", recent_text), Turn("customer", r.ret)>>)
               ELSE /\ conversation_history' =
                           extend(conversation_history, <<Turn("presenter", recent_text)>>)
                    /\ UNCHANGED sent
            /\ UNCHANGED <<greeting_sent, running, ws_closed, analysis>>

\* Fields and score of the report built at main.py:401 for an empty transcript.
MinimalReport ==
    [overall_score |-> 0,
     fields |-> {"overall_score", "scores", "strengths", "areas_for_improvement",
                 "specific_recommendations", "next_steps"}]

RequiredFields ==
    {"overall_score", "performance_level", "criteria_scores", "strengths",
     "improvements", "summary", "next_steps"}

MinScore == 1

MaxScore == 10

CriteriaNames ==
    {"value_proposition", "objection_handling", "active_listening", "question_quality",
     "call_to_action", "engagement", "rule_compliance"}

InRange(score) == score >= MinScore /\ score <= MaxScore

validates_fields_only(data) == RequiredFields \subseteq data.fields

\* SalesCoachingReport(**data) passes pydantic validation: the required
\* fields are present, overall_score and each of the seven criteria scores
\* lies in [1, 10].
validates(data) ==
    /\ RequiredFields \subseteq data.fields
    /\ InRange(data.overall_score)
    /\ "criteria_scores" \in DOMAIN data
           => /\ CriteriaNames \subseteq DOMAIN data.criteria_scores
              /\ \A c \in CriteriaNames : InRange(data.criteria_scores[c])

\* except json.JSONDecodeError: raise ValueError / except Exception: raise
analysis_failed == [report |-> NoReport, raised |-> TRUE, oracle_calls |-> 1]

\* SalesCoachAgent.analyze_presentation: one chat.completions.create call,
\* json.loads of its content, then SalesCoachingReport(**result_data).
analyze_presentation(transcript, reply) ==
    IF reply.kind # "text" THEN analysis_failed
    ELSE IF ~reply.json THEN analysis_failed
    ELSE IF ~validates(reply.data) THEN analysis_failed
    ELSE [report |-> reply.data, raised |-> FALSE, oracle_calls |-> 1]

GoodCriteria == [c \in CriteriaNames |-> 5]

GoodData ==
    [fields |-> RequiredFields, overall_score |-> 7, criteria_scores |-> GoodCriteria]

JsonReply(data) == [kind |-> "text", json |-> TRUE, data |-> data]

NotJsonReply == [kind |-> "text", json |-> FALSE, data |-> GoodData]

\* Analyzer outcomes within a session.
SessionAnalyzerReplies ==
    {[kind |-> "raise"], NotJsonReply, JsonReply(GoodData),
     JsonReply([GoodData EXCEPT !.overall_score = 0]),
     JsonReply([GoodData EXCEPT !.fields = RequiredFields \ {"summary"}])}

full_transcript(history) ==
    join("\n", [i \in 1..Len(history) |-> RenderTurn(history[i])])

\* end_presentation; reply is what the Oracle answers to the analysis
\* request, made only for a non-empty transcript.
EndPresentation ==
    \E reply \in SessionAnalyzerReplies :
        LET transcript == full_transcript(conversation_history)
            a == analyze_presentation(transcript, reply)
            have_report == IF transcript # "" THEN ~a.raised
                           ELSE validates(MinimalReport)
        IN  /\ Receive("end_presentation", "")
            /\ transcript = "" => reply = [kind |-> "raise"]
            /\ call' = NoCall
            /\ running' = FALSE
            /\ analysis' = IF transcript # ""
                           THEN [transcript |-> transcript, reply |-> reply,
                                 report |-> a.report, raised |-> a.raised,
                                 oracle_calls |-> a.oracle_calls, done |-> TRUE]
                           ELSE NoAnalysis
            /\ IF have_report
               THEN /\ sent' = Append(sent, CoachingReport(IF transcript # "" THEN a.report
                                                            ELSE MinimalReport))
                    /\ UNCHANGED ws_closed
               ELSE \* except Exception: websocket.close()
                    ws_closed' = TRUE /\ UNCHANGED sent
            /\ UNCHANGED <<conversation_history, greeting_sent, oracle_calls>>

\* An event whose type matches no branch.
UnknownEvent ==
    /\ Receive("ping", "")
    /\ call' = NoCall
    /\ UNCHANGED <<conversation_history, greeting_sent, sent, running, oracle_calls,
                   ws_closed, analysis>>

\* receive_json raises WebSocketDisconnect.
Disconnect ==
    /\ running
    /\ running' = FALSE
    /\ UNCHANGED <<conversation_history, greeting_sent, sent, message, call,
                   oracle_calls, events, ws_closed, analysis, ws, loop, http, speech>>

Next ==
    \/ StartSession
    \/ TranscriptUpdate
    \/ PauseIgnored
    \/ PauseConsidered
    \/ EndPresentation
    \/ UnknownEvent
    \/ Disconnect

Spec == Init /\ [][Next]_vars

-----------------------------------------------------------------------------
(* The Presentation Analyzer alone: one call of analyze_presentation on    *)
(* every kind of Oracle reply.                                             *)

\* Scores this far outside [MinScore, MaxScore] are tried.
ScoreSlack == 1

Scores == (MinScore - ScoreSlack)..(MaxScore + ScoreSlack)

AnalyzerReplies ==
    {[kind |-> "raise"], [kind |-> "none"], NotJsonReply}
        \cup {JsonReply([GoodData EXCEPT !.fields = RequiredFields \ {f}]) :
                 f \in RequiredFields}
        \cup {JsonReply([GoodData EXCEPT !.overall_score = v]) : v \in Scores}
        \cup {JsonReply([GoodData EXCEPT !.criteria_scores[c] = v]) :
                 c \in CriteriaNames, v \in Scores}
        \cup {JsonReply([GoodData EXCEPT
                 !.criteria_scores = [d \in CriteriaNames \ {c} |-> 5]]) :
                 c \in CriteriaNames}

Transcripts ==
    {"PRESENTER: We sell a platform for teams.",
     "PRESENTER: Does that make sense so far.\nCUSTOMER: Sure, tell me more."}

AnInit ==
    /\ conversation_history = <<>>
    /\ greeting_sent = FALSE
    /\ sent = <<>>
    /\ running = FALSE
    /\ message = NoMessage
    /\ call = NoCall
    /\ oracle_calls = 0
    /\ events = 0
    /\ ws_closed = FALSE
    /\ ws = [s \in Sessions |-> NewSession]
    /\ loop = 0
    /\ http = NewRegistry
    /\ speech = NewSpeechService
    /\ \E t \in Transcripts, r \in AnalyzerReplies :
           analysis = [NoAnalysis EXCEPT !.transcript = t, !.reply = r]

Analyze ==
    /\ ~analysis.done
    /\ LET a == analyze_presentation(analysis.transcript, analysis.reply)
       IN  analysis' = [analysis EXCEPT !.report = a.report, !.raised = a.raised,
                                        !.oracle_calls = a.oracle_calls, !.done = TRUE]
    /\ UNCHANGED <<conversation_history, greeting_sent, sent, running, message, call,
                   oracle_calls, events, ws_closed, ws, loop, http, speech>>

AnNext == Analyze

AnSpec == AnInit /\ [][AnNext]_vars

-----------------------------------------------------------------------------
(* Two interactive sessions served by one event loop. Each handler is a    *)
(* coroutine: it gives up the loop at `await websocket.receive_json()` and *)
(* at `await asyncio.to_thread(...)`; a synchronous call made inside a     *)
(* coroutine holds the loop until it returns.                              *)

LoopMessages ==
    {[type |-> "start_session", text |-> ""],
     [type |-> "pause_detected", text |-> "Does that make sense so far."],
     [type |-> "end_presentation", text |-> ""]}

LoopOracles ==
    {[kind |-> "text", content |-> "SILENT"],
     [kind |-> "text", content |-> "Sure, tell me more."],
     [kind |-> "raise", content |-> ""]}

LoopAnalyzerReplies == {JsonReply(GoodData), [kind |-> "raise"]}

NoOracle == [kind |-> "none", content |-> ""]

NoReply == [kind |-> "none"]

NewLocals == [history |-> <<>>, greeting_sent |-> FALSE, sent |-> <<>>, closed |-> FALSE]

store_global(s) == CHOOSE t \in Sessions : \A u \in Sessions : t <= u

\* Where the handler of session s keeps conversation_history and
\* greeting_sent: they are locals of its own coroutine.
store(s) == s

\* What the handler of session s works on: its locals and its websocket.
Locals(s) ==
    [history |-> ws[store(s)].history, greeting_sent |-> ws[store(s)].greeting_sent,
     sent |-> ws[s].sent, closed |-> ws[s].closed]

\* The start_session branch.
handle_start(L) ==
    [L EXCEPT !.sent = Append(@, AvatarSpeak(Greeting)), !.greeting_sent = TRUE]

\* The pause_detected event passes both `continue` statements.
reaches_arbiter(L, msg) ==
    /\ msg.type = "pause_detected"
    /\ should_consider_speaking(strip(msg.text, Whitespace))
    /\ L.greeting_sent

\* The pause_detected branch from the generate_natural_response call on.
handle_response(L, msg, oracle) ==
    LET recent_text == strip(msg.text, Whitespace)
        r == generate_natural_response(recent_text, L.history, oracle)
    IN  IF r.raised THEN L
        ELSE IF something_to_say(r.ret)
        THEN [L EXCEPT !.sent = Append(@, AvatarSpeak(r.ret)),
                       !.history = extend(@, <<Turn("presenter", recent_text),
                                               Turn("customer", r.ret)>>)]
        ELSE [L EXCEPT !.history = extend(@, <<Turn("presenter", recent_text)>>)]

\* The end_presentation branch.
handle_report(L, reply) ==
    LET transcript == full_transcript(L.history)
        a == analyze_presentation(transcript, reply)
        have_report == IF transcript # ""
                       THEN ~analyze_presentation(transcript, reply).raised
                       ELSE validates(MinimalReport)
    IN  IF have_report
        THEN [L EXCEPT !.sent = Append(@, CoachingReport(IF transcript # "" THEN a.report
                                                         ELSE MinimalReport))]
        ELSE [L EXCEPT !.closed = TRUE]

\* The whole handling of one event, given what the Oracle answered to it.
handle_event(L, entry) ==
    IF entry.msg.type = "start_session" THEN handle_start(L)
    ELSE IF reaches_arbiter(L, entry.msg) THEN handle_response(L, entry.msg, entry.oracle)
    ELSE IF entry.msg.type = "end_presentation" THEN handle_report(L, entry.reply)
    ELSE L

ClientEvents(s) == Len(ws[s].inbox) + ws[s].handled

\* The client of session s sends an event; it waits in the socket.
ClientSend(s) ==
    /\ ws[s].pc # "done"
    /\ ClientEvents(1) + ClientEvents(2) < MaxLoopEvents
    /\ \E msg \in LoopMessages : ws' = [ws EXCEPT ![s].inbox = Append(@, msg)]
    /\ UNCHANGED loop
    /\ UNCHANGED session_vars
    /\ UNCHANGED service_vars

can_receive_while_awaiting(s) == ws[s].pc \in {"receive", "oracle"}

\* The handler of session s stands at `await websocket.receive_json()`.
can_receive(s) == ws[s].pc = "receive"

\* The loop can resume the handler of session s with an event: the loop's
\* thread is not held by a synchronous call, the handler awaits an event and
\* one has arrived.
resumable(s) ==
    /\ loop = 0
    /\ can_receive(s)
    /\ ws[s].inbox # <<>>

\* The locals and the websocket of session s after a step of its handler.
Written(s, L) ==
    [ws EXCEPT ![store(s)].history = L.history,
               ![store(s)].greeting_sent = L.greeting_sent,
               ![s].sent = L.sent,
               ![s].closed = L.closed]

\* The loop resumes the handler of session s with the next event. It runs
\* to its next await, or into the synchronous Oracle call of
\* analyze_presentation.
LoopReceive(s) ==
    /\ resumable(s)
    /\ LET msg == Head(ws[s].inbox)
           L == Locals(s)
           entry == [msg |-> msg, oracle |-> NoOracle, reply |-> NoReply]
       IN  IF reaches_arbiter(L, msg)
           THEN /\ ws' = [ws EXCEPT ![s].inbox = Tail(@), ![s].handled = @ + 1,
                                     ![s].pc = "oracle", ![s].pending = msg,
                                     ![s].in_flight = @ + 1]
                /\ loop' = 0
           ELSE IF msg.type = "end_presentation" /\ full_transcript(L.history) # ""
           THEN /\ ws' = [ws EXCEPT ![s].inbox = Tail(@), ![s].handled = @ + 1,
                                     ![s].pc = "analyzing", ![s].pending = msg]
                /\ loop' = s
           ELSE /\ ws' = [Written(s, handle_event(L, entry)) EXCEPT
                              ![s].inbox = Tail(@), ![s].handled = @ + 1,
                              ![s].log = Append(@, entry),
                              ![s].pc = IF msg.type = "end_presentation"
                                        THEN "done" ELSE "receive"]
                /\ loop' = 0
    /\ UNCHANGED session_vars
    /\ UNCHANGED service_vars

\* The worker thread of asyncio.to_thread finished (or failed) and the loop
\* resumes the handler of session s after the await.
OracleReturn(s) ==
    /\ loop = 0
    /\ ws[s].pc = "oracle"
    /\ \E oracle \in LoopOracles :
           LET entry == [msg |-> ws[s].pending, oracle |-> oracle, reply |-> NoReply]
           IN  ws' = [Written(s, handle_response(Locals(s), ws[s].pending, oracle)) EXCEPT
                         ![s].pc = "receive", ![s].pending = NoMessage,
                         ![s].in_flight = @ - 1, ![s].log = Append(@, entry)]
    /\ UNCHANGED loop
    /\ UNCHANGED session_vars
    /\ UNCHANGED service_vars

\* The synchronous chat.completions.create of analyze_presentation returns
\* (or raises) and the handler of session s runs on to its end.
AnalysisReturn(s) ==
    /\ loop = s
    /\ ws[s].pc = "analyzing"
    /\ \E reply \in LoopAnalyzerReplies :
           LET entry == [msg |-> ws[s].pending, oracle |-> NoOracle, reply |-> reply]
           IN  ws' = [Written(s, handle_report(Locals(s), reply)) EXCEPT
                         ![s].pc = "done", ![s].pending = NoMessage,
                         ![s].log = Append(@, entry)]
    /\ loop' = 0
    /\ UNCHANGED session_vars
    /\ UNCHANGED service_vars

LoopNext ==
    \E s \in Sessions :
        \/ ClientSend(s)
        \/ LoopReceive(s)
        \/ OracleReturn(s)
        \/ AnalysisReturn(s)

LoopSpec == Init /\ [][LoopNext]_vars

-----------------------------------------------------------------------------
(* The HTTP routes over active_sessions.                                   *)

\* The ids uuid4 hands out, in order, and the ids a client may name.
SessionIds == {1, 2}

HttpTranscripts == Transcripts \cup {"", "  "}

HttpAnalyzerReplies == {JsonReply(GoodData), NotJsonReply}

ScriptOutcomes == {"text", "raise"}

\* PresentationSession(session_id, transcript="", duration_seconds=0.0,
\* segments=[]); report defaults to None. `analyzed` is the transcript the
\* stored report was generated from.
NewPresentationSession ==
    [transcript |-> "", report |-> NoReport, has_report |-> FALSE, analyzed |-> ""]

\* SalesCoachAgent.generate_coaching_script: one Oracle call; any exception
\* is logged and re-raised.
generate_coaching_script(report, outcome) ==
    [raised |-> outcome = "raise", ret |-> IF outcome = "raise" THEN "" ELSE "script"]

\* The answer to a request and the registry it leaves.
Answered(route, id, status, body, sessions, succeeded) ==
    /\ http.requests < MaxRequests
    /\ http' = [http EXCEPT !.requests = @ + 1,
                            !.response = [route |-> route, id |-> id, status |-> status,
                                          body |-> body],
                            !.sessions = sessions,
                            !.succeeded = succeeded]
    /\ UNCHANGED session_vars
    /\ UNCHANGED <<ws, loop, speech>>

\* POST /api/session/start
HttpStartSession ==
    LET session_id == http.created + 1
    IN  /\ session_id \in SessionIds
        /\ http.requests < MaxRequests
        /\ http' = [http EXCEPT
               !.created = session_id,
               !.requests = @ + 1,
               !.response = [route |-> "start", id |-> session_id, status |-> 200,
                             body |-> NoBody],
               !.sessions = [i \in DOMAIN @ \cup {session_id} |->
                                IF i = session_id THEN NewPresentationSession ELSE @[i]]]
        /\ UNCHANGED session_vars
        /\ UNCHANGED <<ws, loop, speech>>

\* session.transcript = transcript_data.get("transcript", ""), before the
\* emptiness check and before the analysis.
store_transcript(sessions, session_id, transcript) ==
    [sessions EXCEPT ![session_id].transcript = transcript]

\* POST /api/session/{session_id}/analyze
HttpAnalyze(session_id) ==
    \E transcript \in HttpTranscripts, reply \in HttpAnalyzerReplies,
       outcome \in ScriptOutcomes :
        IF session_id \notin DOMAIN http.sessions
        THEN Answered("analyze", session_id, 404, NoBody, http.sessions, http.succeeded)
        ELSE LET stored == store_transcript(http.sessions, session_id, transcript)
                 a == analyze_presentation(transcript, reply)
                 reported == [stored EXCEPT ![session_id].report = a.report,
                                            ![session_id].has_report = TRUE,
                                            ![session_id].analyzed = transcript]
                 script == generate_coaching_script(a.report, outcome)
             IN  IF strip(stored[session_id].transcript, Whitespace) = ""
                 THEN Answered("analyze", session_id, 400, NoBody, stored, http.succeeded)
                 ELSE IF a.raised
                 THEN Answered("analyze", session_id, 500, NoBody, stored, http.succeeded)
                 ELSE IF script.raised
                 THEN Answered("analyze", session_id, 500, NoBody, reported, http.succeeded)
                 ELSE Answered("analyze", session_id, 200,
                               [transcript |-> transcript, report |-> a.report],
                               reported, http.succeeded \cup {session_id})

\* GET /api/session/{session_id}/report
HttpGetReport(session_id) ==
    IF session_id \notin DOMAIN http.sessions
    THEN Answered("report", session_id, 404, NoBody, http.sessions, http.succeeded)
    ELSE IF ~http.sessions[session_id].has_report
    THEN Answered("report", session_id, 404, NoBody, http.sessions, http.succeeded)
    ELSE Answered("report", session_id, 200,
                  [transcript |-> http.sessions[session_id].transcript,
                   report |-> http.sessions[session_id].report],
                  http.sessions, http.succeeded)

\* DELETE /api/session/{session_id}
HttpDelete(session_id) ==
    IF session_id \in DOMAIN http.sessions
    THEN Answered("delete", session_id, 200, NoBody,
                  [i \in DOMAIN http.sessions \ {session_id} |-> http.sessions[i]],
                  http.succeeded)
    ELSE Answered("delete", session_id, 404, NoBody, http.sessions, http.succeeded)

HttpNext ==
    \/ HttpStartSession
    \/ \E session_id \in SessionIds :
           \/ HttpAnalyze(session_id)
           \/ HttpGetReport(session_id)
           \/ HttpDelete(session_id)

HttpSpec == Init /\ [][HttpNext]_vars

-----------------------------------------------------------------------------
(* SpeechService. The SDK calls _on_recognized on a thread of its own; the *)
(* service takes no lock, so start_continuous_recognition, which resets    *)
(* the state before it touches the recognizer, can run while that thread   *)
(* is inside the callback.                                                 *)

SpeechTexts == {"Hello there.", " ", "We sell a platform."}

SpeechBounded == speech.results + speech.calls < MaxSpeechEvents

\* start_continuous_recognition
StartContinuousRecognition ==
    /\ SpeechBounded
    /\ speech' = [speech EXCEPT !.segments = <<>>,
                                !.full_transcript = "",
                                !.recognizer = TRUE,
                                !.calls = @ + 1,
                                !.since_start = <<>>,
                                !.started_at = speech.results,
                                !.returned = NewSpeechService.returned]
    /\ UNCHANGED session_vars
    /\ UNCHANGED <<ws, loop, http>>

\* The running recognizer raises `recognized` with reason RecognizedSpeech
\* and the SDK thread enters _on_recognized with the result.
Recognized ==
    /\ SpeechBounded
    /\ speech.recognizer
    /\ speech.evt = NoResult
    /\ \E text \in SpeechTexts :
           LET result == [text |-> text, timestamp |-> speech.results + 1]
           IN  speech' = [speech EXCEPT
                   !.evt = result,
                   !.results = @ + 1,
                   !.since_start = IF strip(text, Whitespace) # ""
                                   THEN Append(@, result) ELSE @]
    /\ UNCHANGED session_vars
    /\ UNCHANGED <<ws, loop, http>>

\* The body of _on_recognized: a non-blank text is appended to
\* self.segments and, followed by a space, to self.full_transcript.
on_recognized ==
    /\ speech.evt # NoResult
    /\ speech' = IF strip(speech.evt.text, Whitespace) # ""
                 THEN [speech EXCEPT
                          !.segments = Append(@, speech.evt),
                          !.full_transcript = @ \o speech.evt.text \o " ",
                          !.evt = NoResult]
                 ELSE [speech EXCEPT !.evt = NoResult]
    /\ UNCHANGED session_vars
    /\ UNCHANGED <<ws, loop, http>>

\* stop_continuous_recognition: the SDK's stop returns once the recognizer
\* has stopped and its callbacks have run.
StopContinuousRecognition ==
    /\ SpeechBounded
    /\ speech.recognizer
    /\ speech.evt = NoResult
    /\ speech' = [speech EXCEPT
           !.recognizer = FALSE,
           !.calls = @ + 1,
           !.returned = [transcript |-> strip(speech.full_transcript, Whitespace),
                         segments |-> speech.segments, done |-> TRUE]]
    /\ UNCHANGED session_vars
    /\ UNCHANGED <<ws, loop, http>>

SpeechNext ==
    \/ StartContinuousRecognition
    \/ Recognized
    \/ on_recognized
    \/ StopContinuousRecognition

SpeechSpec == Init /\ [][SpeechNext]_vars

-----------------------------------------------------------------------------
(* Properties.                                                             *)

\* The Oracle returned a reply string for the call recorded in `call`.
Replied == call.done /\ call.oracle.kind = "text"

\* A reply with every surrounding quote character and whitespace removed,
\* in whatever order they are placed.
FullStrip(content) == strip(content, Whitespace \cup QuoteChars)

SilenceTokens == {"SILENT", "SILENCE", "NO RESPONSE"}

\* The step handles a newly received pause_detected event.
HandlesPause == events' = events + 1 /\ message'.type = "pause_detected"

\* C1: whenever the presenter text is a direct question and the Oracle
\* returned a reply string, generate_natural_response returns a non-empty
\* string (a speak decision), never the empty string, and raises nothing.
C1_QuestionAlwaysSpeaks ==
    (Replied /\ is_question(call.presenter_text))
        => (call.ret # "" /\ ~call.raised)

C1_Witness ==
    /\ Replied
    /\ is_question(call.presenter_text)
    /\ upper(clean_reply(call.oracle.content)) = "SILENT"
    /\ call.ret = Fallback

\* C2: every pause_detected event that arrives after the greeting, has at
\* least 5 words and is a direct question makes the handler send one
\* avatar_speak message while handling it, whatever the Oracle does.
C2_QuestionAnswered ==
    [][(/\ HandlesPause
        /\ greeting_sent
        /\ Len(split(strip(message'.text, Whitespace))) >= 5
        /\ is_question(strip(message'.text, Whitespace)))
          => (/\ Len(sent') = Len(sent) + 1
              /\ sent'[Len(sent')].type = "avatar_speak")]_vars

\* C3: every non-empty string returned by generate_natural_response is not
\* only whitespace and has at least 3 characters.
C3_SpeakTextWellFormed ==
    (call.done /\ call.ret # "")
        => (strip(call.ret, Whitespace) # "" /\ Len(call.ret) >= 3)

C5_ShortTextIgnored ==
    [][(/\ HandlesPause
        /\ LET t == strip(message'.text, Whitespace)
           IN  t = "" \/ Len(split(t)) < 5)
          => (/\ oracle_calls' = oracle_calls
              /\ ~call'.done
              /\ sent' = sent
              /\ conversation_history' = conversation_history)]_vars

C5_Witness ==
    /\ message.type = "pause_detected"
    /\ greeting_sent
    /\ Len(split(strip(message.text, Whitespace))) = 4
    /\ is_question(message.text)
    /\ ~call.done

\* C6: until the greeting has been sent, no Arbiter or Oracle call has been
\* made and nothing has been sent to the client.
C6_NothingBeforeGreeting ==
    ~greeting_sent => (oracle_calls = 0 /\ ~call.done /\ sent = <<>>)

C6_Witness ==
    /\ ~greeting_sent
    /\ message.type = "pause_detected"
    /\ Len(split(strip(message.text, Whitespace))) >= 5
    /\ is_question(message.text)
    /\ events = 2

\* C7: for a direct question, the returned text is the fixed fallback when
\* the Oracle's reply, stripped of surrounding quotes and whitespace, is
\* empty or equals SILENT or SILENCE in any letter case; otherwise it is
\* the Oracle's reply.
C7_FallbackOrVerbatim ==
    (Replied /\ is_question(call.presenter_text))
        => IF \/ FullStrip(call.oracle.content) = ""
              \/ upper(FullStrip(call.oracle.content)) \in {"SILENT", "SILENCE"}
           THEN call.ret = Fallback
           ELSE call.ret = clean_reply(call.oracle.content)

\* C8: for a text that is no direct question, a reply that equals SILENT,
\* SILENCE or NO RESPONSE once its surrounding quotes and whitespace are
\* stripped yields the silent decision.
C8_SilenceTokenIsSilent ==
    (/\ Replied
     /\ ~is_question(call.presenter_text)
     /\ upper(FullStrip(call.oracle.content)) \in SilenceTokens)
        => call.ret = ""

\* C9: for a text that is no direct question, a reply that is empty or has
\* fewer than 2 characters after trimming yields the silent decision.
C9_DegenerateReplyIsSilent ==
    (/\ Replied
     /\ ~is_question(call.presenter_text)
     /\ \/ Len(strip(call.oracle.content, Whitespace)) < 2
        \/ Len(strip(clean_reply(call.oracle.content), Whitespace)) < 2)
        => call.ret = ""

C9_Witness ==
    /\ Replied
    /\ ~is_question(call.presenter_text)
    /\ Len(strip(clean_reply(call.oracle.content), Whitespace)) = 1
    /\ call.ret = ""

\* C10: for a text that is no direct question and a reply that is neither a
\* silence token nor empty nor shorter than 2 characters, the Arbiter
\* returns the reply and the handler sends it as avatar_speak for that
\* pause event.
C10_ReplySpokenAndDelivered ==
    [][(/\ HandlesPause
        /\ call'.done
        /\ call'.oracle.kind = "text"
        /\ ~is_question(call'.presenter_text)
        /\ LET reply == clean_reply(call'.oracle.content)
           IN  /\ upper(reply) \notin SilenceTokens
               /\ reply # ""
               /\ Len(strip(reply, Whitespace)) >= 2)
          => (/\ call'.ret = clean_reply(call'.oracle.content)
              /\ sent' = Append(sent, AvatarSpeak(call'.ret)))]_vars


\* Some sentence of the utterance (a piece between periods), trimmed and
\* lowercased, begins within its first 20 characters with a fixed phrase.
HasPhraseStart(utterance) ==
    LET sentences == split_on(utterance, ".")
    IN  \E i \in 1..Len(sentences) : \E q \in QuestionPhrases :
            startswith(Prefix(lower(strip(sentences[i], Whitespace)), 20), q)

EndsWithMark(utterance) == endswith(strip(utterance, Whitespace), "?")

\* C11: an utterance whose trimmed form ends with one or more '?' is
\* classified as a direct question.
C11_QuestionMarkIsQuestion ==
    (call.done /\ EndsWithMark(call.presenter_text)) => call.is_question

C11_Witness ==
    /\ call.done
    /\ endswith(call.presenter_text, "?? ")
    /\ ~HasPhraseStart(call.presenter_text)
    /\ call.is_question

\* C12: an utterance that does not end in '?' after trimming and in which
\* no sentence begins with a fixed phrase is not a direct question; the
\* empty and the whitespace-only utterance are among them.
C12_OtherwiseNotQuestion ==
    (call.done /\ ~EndsWithMark(call.presenter_text)
              /\ ~HasPhraseStart(call.presenter_text))
        => ~call.is_question

C12_Witness ==
    /\ call.done
    /\ call.presenter_text = "So what do you think."
    /\ ~call.is_question

\* C13: an utterance with a sentence that begins with a fixed phrase is a
\* direct question even without '?', and when the Oracle then replies
\* SILENT the returned text is the fallback.
C13_PhraseIsQuestion ==
    (call.done /\ HasPhraseStart(call.presenter_text))
        => /\ call.is_question
           /\ (call.oracle.kind = "text" /\ upper(clean_reply(call.oracle.content)) = "SILENT")
                  => call.ret = Fallback

C13_Witness ==
    /\ call.done
    /\ HasPhraseStart(call.presenter_text)
    /\ ~EndsWithMark(call.presenter_text)
    /\ call.oracle.content = "SILENT"
    /\ call.ret = Fallback


IsPrefix(a, b) == Len(a) <= Len(b) /\ SubSeq(b, 1, Len(a)) = a

\* C14: the conversation history of a session is append-only: the history
\* before a step is a prefix of the history after it.
C14_HistoryAppendOnly ==
    [][IsPrefix(conversation_history, conversation_history')]_vars

C14_Witness ==
    /\ Len(conversation_history) >= 3
    /\ message.type = "pause_detected"
    /\ call.done
    /\ call.history # <<>>

\* The lines of a text: none for the empty text, else the pieces between
\* newlines.
Lines(text) ==
    LET breaks == {i \in 1..Len(text) : CharAt(text, i) = "\n"}
        \* position of the k-th newline; 0 and Len(text) + 1 bracket the text
        at(k) == IF k = 0 THEN 0
                 ELSE IF k > Cardinality(breaks) THEN Len(text) + 1
                 ELSE CHOOSE p \in breaks : Cardinality({q \in breaks : q < p}) = k - 1
    IN  IF text = "" THEN <<>>
        ELSE [k \in 1..(Cardinality(breaks) + 1) |->
                 SubSeq(text, at(k - 1) + 1, at(k) - 1)]

\* C16: the transcript rendered at end_presentation from N turns splits on
\* newlines into exactly N lines, the i-th being the rendering of turn i.
C16_TranscriptRoundTrip ==
    message.type = "end_presentation"
        => Lines(full_transcript(conversation_history)) =
               [i \in 1..Len(conversation_history) |->
                   RenderTurn(conversation_history[i])]


SpeakerLabel(speaker) == IF speaker = "presenter" THEN "PRESENTER" ELSE "CUSTOMER"

\* The last min(4, Len(history)) turns, oldest first.
ExpectedWindow(history) ==
    LET n == Len(history)
        k == IF n < 4 THEN n ELSE 4
    IN  [i \in 1..k |-> history[n - k + i]]

\* C15: the context given to the Oracle is exactly the last min(4, length)
\* turns of the history, in order, newest last, one "SPEAKER: text" line
\* each; a short or empty history gives the shorter window and no error.
C15_ContextIsLastFour ==
    call.done
        => /\ call.context =
                  join("\n", [i \in 1..Len(ExpectedWindow(call.history)) |->
                      SpeakerLabel(ExpectedWindow(call.history)[i].speaker) \o ": "
                          \o ExpectedWindow(call.history)[i].text])
           /\ call.oracle.kind = "text" => ~call.raised

C15_Witness ==
    /\ call.done
    /\ Len(call.history) = 5
    /\ call.history[1] # call.history[5]
    /\ Len(Lines(call.context)) = 4


\* C17: events of one session are handled one at a time: a session never has
\* two generate_natural_response calls in flight, and its handler takes the
\* next event only when no call of the session is pending, that is after
\* the pending call's decision has been applied to the history.
C17_OneEventAtATime ==
    [][\A s \in Sessions :
          /\ ws'[s].in_flight <= 1
          /\ ws'[s].handled = ws[s].handled + 1
                 => ws[s].in_flight = 0 /\ ws[s].pending = NoMessage]_vars

C17_Witness ==
    \E s \in Sessions :
        /\ ws[s].pc = "oracle"
        /\ ws[s].in_flight = 1
        /\ ws[s].inbox # <<>>

\* C18: while an Oracle call of one session is pending, be it the Arbiter's
\* or the Analyzer's, the event loop is free: another session whose handler
\* waits for an event that has arrived can be resumed with it.
C18_OracleCallsOffLoop ==
    \A s \in Sessions :
        ws[s].pc \in {"oracle", "analyzing"}
            => \A t \in Sessions \ {s} :
                   (ws[t].pc = "receive" /\ ws[t].inbox # <<>>) => resumable(t)

RECURSIVE Replay(_)
\* The locals and sent messages a session reaches from its own events and
\* the Oracle's replies to them alone.
Replay(log) ==
    IF log = <<>> THEN NewLocals
    ELSE handle_event(Replay(SubSeq(log, 1, Len(log) - 1)), log[Len(log)])

\* C19: in any interleaving of two sessions the history, the greeting flag
\* and the messages sent of each session are those its own events and
\* Oracle replies produce; nothing of the other session enters them.
C19_SessionsShareNothing ==
    \A s \in Sessions :
        [history |-> ws[s].history, greeting_sent |-> ws[s].greeting_sent,
         sent |-> ws[s].sent, closed |-> ws[s].closed] = Replay(ws[s].log)

C19_Witness ==
    /\ Len(ws[1].history) = 2
    /\ Len(ws[2].history) = 1
    /\ ws[1].greeting_sent
    /\ ws[2].greeting_sent


\* The Oracle's reply to the analysis request is not parseable JSON, lacks
\* a required field, or carries a score outside 1..10.
Malformed(reply) ==
    /\ reply.kind = "text"
    /\ \/ ~reply.json
       \/ \E f \in RequiredFields : f \notin reply.data.fields
       \/ reply.data.overall_score \notin 1..10
       \/ \E c \in DOMAIN reply.data.criteria_scores :
              reply.data.criteria_scores[c] \notin 1..10

\* C20: on a reply that is not parseable JSON or does not fit the report
\* shape, analyze_presentation raises, returns no report and has called the
\* Oracle exactly once.
C20_MalformedAnalysisRaises ==
    (analysis.done /\ Malformed(analysis.reply))
        => /\ analysis.raised
           /\ analysis.report = NoReport
           /\ analysis.oracle_calls = 1

C20_Witness ==
    /\ analysis.done
    /\ analysis.reply.kind = "text"
    /\ analysis.reply.json
    /\ analysis.reply.data.fields = RequiredFields
    /\ analysis.reply.data.overall_score = 7
    /\ \E c \in DOMAIN analysis.reply.data.criteria_scores :
           analysis.reply.data.criteria_scores[c] = 11
    /\ analysis.raised

\* C21: when the full-presentation analysis of an end_presentation event
\* fails, the client is sent an explicit failure message; the connection is
\* not closed without one.
C21_AnalysisFailureReported ==
    (message.type = "end_presentation" /\ analysis.done /\ analysis.raised)
        => /\ sent # <<>>
           /\ sent[Len(sent)].type \notin {"avatar_speak", "coaching_report"}

\* C22: a successful analysis at end_presentation was called once, with the
\* transcript rendered from the whole history, and exactly one
\* coaching_report carrying its report was sent, as the last message; the
\* messages before it are the avatar_speak messages of earlier events.
C22_ReportDelivered ==
    (message.type = "end_presentation" /\ analysis.done /\ ~analysis.raised)
        => /\ analysis.transcript = full_transcript(conversation_history)
           /\ analysis.oracle_calls = 1
           /\ sent # <<>>
           /\ sent[Len(sent)] = [type |-> "coaching_report", report |-> analysis.report]
           /\ \A i \in 1..(Len(sent) - 1) : sent[i].type = "avatar_speak"
           /\ ~running

C22_Witness ==
    /\ message.type = "end_presentation"
    /\ analysis.done
    /\ ~analysis.raised
    /\ Len(conversation_history) = 2
    /\ Len(sent) = 3

\* C23: end_presentation on an empty history makes no Oracle call and sends
\* the minimal report as a coaching_report message.
C23_MinimalReportSent ==
    (message.type = "end_presentation" /\ conversation_history = <<>>)
        => /\ ~analysis.done
           /\ sent # <<>>
           /\ sent[Len(sent)].type = "coaching_report"

C25_FailureLooksLikeSilence ==
    [][(/\ HandlesPause
        /\ call'.done
        /\ ~call'.is_question
        /\ call'.oracle.kind = "raise" \/ call'.oracle = [kind |-> "text", content |-> "SILENT"])
          => /\ sent' = sent
             /\ conversation_history' =
                    Append(conversation_history,
                           [speaker |-> "presenter", text |-> call'.presenter_text])
             /\ call'.ret = ""
             /\ ~call'.raised]_vars

C25_Witness ==
    /\ call.done
    /\ ~call.is_question
    /\ call.oracle.kind = "raise"
    /\ Len(conversation_history) = 2
    /\ conversation_history[1] = conversation_history[2]
    /\ call.history # <<>>
    /\ Len(sent) = 1

\* C26: every avatar_speak sent and every customer turn stored has a text of
\* more than 2 characters that is not only whitespace.
C26_SpokenTextIsSubstantial ==
    /\ \A i \in 1..Len(sent) :
           sent[i].type = "avatar_speak"
               => Len(sent[i].text) > 2 /\ strip(sent[i].text, Whitespace) # ""
    /\ \A i \in 1..Len(conversation_history) :
           conversation_history[i].speaker = "customer"
               => /\ Len(conversation_history[i].text) > 2
                  /\ strip(conversation_history[i].text, Whitespace) # ""

C26_Witness ==
    /\ call.done
    /\ call.oracle = [kind |-> "text", content |-> "ok"]
    /\ ~call.is_question
    /\ Len(conversation_history) = 1
    /\ Len(sent) = 1

\* C27: no step follows the processing of end_presentation: no event is
\* received, no Oracle call made, nothing sent. transcript_update events and
\* events of unknown type leave the history, the greeting flag, the sent
\* messages and the Oracle call count as they were.
C27_EndTerminates ==
    [][/\ message.type # "end_presentation"
       /\ (events' = events + 1 /\ message'.type \in {"transcript_update", "ping"})
              => UNCHANGED <<conversation_history, greeting_sent, sent, oracle_calls>>]_vars

C27_Witness ==
    /\ message.type = "end_presentation"
    /\ ~running
    /\ events < MaxEvents
    /\ greeting_sent

\* C28: after every HTTP request, a session that holds a report holds the
\* transcript that report was generated from, and an analyze request that
\* was rejected (400) or failed (500) has left the stored sessions as they
\* were.
C28_ReportMatchesTranscript ==
    [][http'.requests = http.requests + 1
          => /\ \A id \in DOMAIN http'.sessions :
                    http'.sessions[id].has_report
                        => http'.sessions[id].transcript = http'.sessions[id].analyzed
             /\ (http'.response.route = "analyze" /\ http'.response.status \in {400, 500})
                    => http'.sessions = http.sessions]_vars

\* C29: analyze, report and delete on an id that is not registered answer
\* 404 and leave the registry unchanged; the report route answers 200 only
\* for a session one of whose analyze requests has answered 200, and 404
\* otherwise.
C29_RegistryAnswers ==
    [][http'.requests = http.requests + 1
          => LET r == http'.response
             IN  /\ (r.route \in {"analyze", "report", "delete"}
                        /\ r.id \notin DOMAIN http.sessions)
                        => r.status = 404 /\ http'.sessions = http.sessions
                 /\ r.route = "report"
                        => (r.status = 200 => r.id \in http.succeeded)
                              /\ (r.id \notin http.succeeded => r.status = 404)]_vars

RECURSIVE Spaced(_)
\* The texts of the results, each followed by one space.
Spaced(results) ==
    IF results = <<>> THEN ""
    ELSE Spaced(SubSeq(results, 1, Len(results) - 1)) \o results[Len(results)].text \o " "

\* C30: outside a callback, the segment list holds the non-blank results
\* recognized since the last start_continuous_recognition, in arrival
\* order, and full_transcript is their texts each followed by one space; and
\* what stop_continuous_recognition returns holds no result recognized
\* before that start.
C30_TranscriptSinceStart ==
    /\ speech.evt = NoResult
           => /\ speech.segments = speech.since_start
              /\ speech.full_transcript = Spaced(speech.since_start)
    /\ speech.returned.done
           => /\ \A i \in 1..Len(speech.returned.segments) :
                     speech.returned.segments[i].timestamp > speech.started_at
              /\ speech.returned.transcript = strip(Spaced(speech.since_start), Whitespace)

====
